---- MODULE Spec2Model ----
(***************************************************************************)
(* The conversation state of HomePage (src/unnamed/part_000): the React    *)
(* state cells, the async handlers as in-flight tasks that keep the values *)
(* their closure captured, and the REST server they talk to.               *)
(*                                                                         *)
(* A request that succeeds goes through two steps: the server handles it   *)
(* (ServerOk, which changes the server and fixes the response), and later  *)
(* the client receives the response and runs the handler's continuation    *)
(* (one Recv action per await).  A request the server has not answered     *)
(* with success fails: its Recv action runs the handler's failure path and *)
(* the server is as it was.  Responses arrive in any order.                *)
(***************************************************************************)
EXTENDS Integers, Sequences, FiniteSets, Bags, TLC

\* ------------------------------------------------------------------ bounds
\* Sessions the server holds when the page is opened: none, or MaxInitial.
MaxInitial == 1
\* Events of the user that a handler acts on (clicks, typing, submits).
MaxEvents == 3
\* Events of the user in the behaviours checked for liveness.
MaxFairEvents == 2

\* ------------------------------------------------------------------ values
\* null of activeSessionId / editingId (ids are positive, 0 is falsy in JS too)
Null == 0

\* Composer texts, as sequences of characters.
Texts == { <<>>, <<" ">>, <<"b">> }

\* String.prototype.trim: drop leading and trailing white space.
RECURSIVE TrimLeft(_)
TrimLeft(t) ==
    IF t # <<>> /\ Head(t) = " " THEN TrimLeft(Tail(t)) ELSE t

RECURSIVE TrimRight(_)
TrimRight(t) ==
    IF t # <<>> /\ t[Len(t)] = " " THEN TrimRight(SubSeq(t, 1, Len(t) - 1)) ELSE t

Trim(t) == TrimRight(TrimLeft(t))

\* Mutant: only the empty text counts as blank (no trim).
IsBlankUntrimmed(t) == t = <<>>

\* !chatInput.trim()
IsBlank(t) == Trim(t) = <<>>

\* The elements of a sequence.
Range(s) == { s[i] : i \in 1..Len(s) }

Msg(i, s, r, t) == [id |-> i, session |-> s, role |-> r, text |-> t]

VARIABLES
    sessions,            \* useState([]): ids of the sessions listed in the sidebar
    activeSessionId,     \* useState(null)
    history,             \* useState([]): the messages shown
    loading,             \* useState(false)
    error,               \* useState("")
    chatInput,           \* useState("")
    chatLoading,         \* useState(false)
    editingId,           \* useState(null)
    editingOriginalText, \* useState("")
    tasks,               \* bag of the async handlers awaiting a response
    srvSessions,         \* server: session ids, as GET /sessions/ lists them
    srvMessages,         \* server: all messages, oldest first
    srvNextSession,      \* server: next session id
    srvNextMsg,          \* server: next message id
    events,              \* how many events of the user have changed the state
    last                 \* the handler step taken last (observation only)

vars == << sessions, activeSessionId, history, loading, error, chatInput,
           chatLoading, editingId, editingOriginalText, tasks, srvSessions,
           srvMessages, srvNextSession, srvNextMsg, events, last >>

client == << sessions, activeSessionId, history, loading, error, chatInput,
             chatLoading, editingId, editingOriginalText >>

server == << srvSessions, srvMessages, srvNextSession, srvNextMsg >>

\* ------------------------------------------------------------------ tasks
(* An async handler between two of its awaits.  kind: the handler; stage:  *)
(* the request it awaits; st: "sent" until the server has answered the     *)
(* request with success, then "ok"; arg: the id in the request; cap: the   *)
(* activeSessionId (editingId for an edit) its closure captured; txt: the  *)
(* chatInput its closure captured; updated: the PATCH's response; data:    *)
(* the response body.                                                      *)
NoMsg == Msg(Null, Null, "none", <<>>)

Task(kind, stage, arg, cap, txt) ==
    [kind |-> kind, stage |-> stage, st |-> "sent", arg |-> arg, cap |-> cap,
     txt |-> txt, updated |-> NoMsg, data |-> <<>>]

InFlight == BagToSet(tasks)

Spawn(bag, t) == bag (+) SetToBag({t})

Drop(bag, t) == bag (-) SetToBag({t})

Replace(bag, t, u) == Spawn(Drop(bag, t), u)

\* One more event of the user.
Event == events < MaxEvents /\ events' = events + 1

\* A user event starts handler t.
Start(t) == tasks' = Spawn(tasks, t) /\ Event

Did(op, arg) == [op |-> op, arg |-> arg]

\* ------------------------------------------------------------------ server
\* GET /messages/?session={id}
MessagesOf(sid) == SelectSeq(srvMessages, LAMBDA m : m.session = sid)

SrvMsgIds == { m.id : m \in Range(srvMessages) }

SrvMsg(id) == CHOOSE m \in Range(srvMessages) : m.id = id

\* Message ids the initial sessions hold: session k has 2k-1 (user), 2k (reply).
FirstNewMsg == 2 * MaxInitial + 1

RECURSIVE InitMessages(_)
InitMessages(n) ==
    IF n = 0 THEN <<>>
    ELSE InitMessages(n - 1)
           \o << Msg(2 * n - 1, n, "user", <<"a">>),
                 Msg(2 * n, n, "assistant", <<"r">>) >>

\* Newest first.
RECURSIVE InitSessions(_)
InitSessions(n) == IF n = 0 THEN <<>> ELSE <<n>> \o InitSessions(n - 1)

\* Regenerate: the messages of the session up to and including message id.
RECURSIVE UpTo(_, _)
UpTo(s, id) ==
    IF s = <<>> THEN <<>>
    ELSE IF Head(s).id = id THEN <<Head(s)>>
    ELSE <<Head(s)>> \o UpTo(Tail(s), id)

\* The ids regenerate discards: those after message id in its session.
Later(id) ==
    LET own == MessagesOf(SrvMsg(id).session)
    IN  { m.id : m \in Range(own) } \ { m.id : m \in Range(UpTo(own, id)) }

\* ------------------------------------------------------------------ Init
(* The state after the first render and its mount effect: every cell has   *)
(* its useState value and fetchSessions() awaits GET /sessions/, with the  *)
(* activeSessionId of the first render (null) in its closure.  The server  *)
(* holds no session yet, or MaxInitial of them with one exchange each.     *)
Init ==
    /\ sessions = <<>>
    /\ activeSessionId = Null
    /\ history = <<>>
    /\ loading = FALSE
    /\ error = ""
    /\ chatInput = <<>>
    /\ chatLoading = FALSE
    /\ editingId = Null
    /\ editingOriginalText = <<>>
    /\ tasks = SetToBag({ Task("fetchSessions", "sessions", Null, Null, <<>>) })
    /\ \E n \in {0, MaxInitial} :
          /\ srvSessions = InitSessions(n)
          /\ srvMessages = InitMessages(n)
          /\ srvNextSession = n + 1
    /\ srvNextMsg = FirstNewMsg
    /\ events = 0
    /\ last = Did("mount", Null)

\* ------------------------------------------------------------------ server steps
\* What the server answers to request t, and what it becomes, when it accepts.
SrvAccepts(t) ==
    CASE t.stage = "sessions"      -> TRUE
      [] t.stage = "fetchMessages" -> TRUE
      [] t.stage = "createSession" -> TRUE
      [] t.stage = "deleteSession" -> t.arg \in Range(srvSessions)
      [] t.stage = "deleteMessage" -> t.arg \in SrvMsgIds
      [] t.stage = "chat"          -> t.arg \in Range(srvSessions)
      [] t.stage = "patch"         -> t.arg \in SrvMsgIds
      [] t.stage = "regenerate"    -> t.arg \in SrvMsgIds

SrvData(t) ==
    CASE t.stage = "sessions"      -> srvSessions
      [] t.stage = "fetchMessages" -> MessagesOf(t.arg)
      [] t.stage = "createSession" -> << srvNextSession >>
      [] t.stage = "patch"         -> << [SrvMsg(t.arg) EXCEPT !.text = t.txt] >>
      [] OTHER                     -> <<>>

SrvSessionsAfter(t) ==
    CASE t.stage = "createSession" -> << srvNextSession >> \o srvSessions
      [] t.stage = "deleteSession" -> SelectSeq(srvSessions, LAMBDA x : x # t.arg)
      [] OTHER                     -> srvSessions

SrvMessagesAfter(t) ==
    CASE t.stage = "deleteSession" ->
            SelectSeq(srvMessages, LAMBDA m : m.session # t.arg)
      [] t.stage = "deleteMessage" ->
            SelectSeq(srvMessages, LAMBDA m : m.id # t.arg)
      [] t.stage = "chat" ->
            srvMessages \o << Msg(srvNextMsg, t.arg, "user", t.txt),
                              Msg(srvNextMsg + 1, t.arg, "assistant", <<"r">>) >>
      [] t.stage = "patch" ->
            [ i \in 1..Len(srvMessages) |->
                IF srvMessages[i].id = t.arg
                THEN [srvMessages[i] EXCEPT !.text = t.txt]
                ELSE srvMessages[i] ]
      [] t.stage = "regenerate" ->
            SelectSeq(srvMessages, LAMBDA m : m.id \notin Later(t.arg))
              \o << Msg(srvNextMsg, SrvMsg(t.arg).session, "assistant", <<"r">>) >>
      [] OTHER -> srvMessages

SrvNewMsgs(t) ==
    CASE t.stage = "chat" -> 2 [] t.stage = "regenerate" -> 1 [] OTHER -> 0

\* The server handles request t and answers 2xx.
ServerOk(t) ==
    /\ t.st = "sent"
    /\ SrvAccepts(t)
    /\ srvSessions' = SrvSessionsAfter(t)
    /\ srvMessages' = SrvMessagesAfter(t)
    /\ srvNextSession' = srvNextSession + (IF t.stage = "createSession" THEN 1 ELSE 0)
    /\ srvNextMsg' = srvNextMsg + SrvNewMsgs(t)
    /\ tasks' = Replace(tasks, t, [t EXCEPT !.st = "ok", !.data = SrvData(t)])
    /\ UNCHANGED << client, events, last >>

\* ------------------------------------------------------------------ error texts
ErrCreate == "Failed to create session"
ErrFetchMessages == "Failed to fetch messages"
ErrDeleteMessage == "Failed to delete message"
ErrDeleteSession == "Failed to delete session"
ErrChat == "Chat request failed"
\* Mutant: a failed PATCH shows no error.
ErrUpdateSilent == ""

ErrUpdate == "Update failed"

\* ------------------------------------------------------------------ user events
\* "+ New": handleCreateNewChat up to its await.
ClickNewChat ==
    /\ error' = ""
    /\ Start(Task("create", "createSession", Null, Null, <<>>))
    /\ last' = Did("create", Null)
    /\ UNCHANGED << sessions, activeSessionId, history, loading, chatInput,
                    chatLoading, editingId, editingOriginalText, server >>

\* fetchMessages(sessionId) returns at once for a falsy id.
FetchMessagesRuns(sessionId) == sessionId # Null

\* A session button of the sidebar: setActiveSessionId(s.id); fetchMessages(s.id).
ClickSession(s) ==
    /\ s \in Range(sessions)
    /\ activeSessionId' = s
    /\ IF FetchMessagesRuns(s)
       THEN /\ loading' = TRUE
            /\ error' = ""
            /\ Start(Task("fetchMessages", "fetchMessages", s, Null, <<>>))
       ELSE UNCHANGED << loading, error, tasks, events >>
    /\ last' = Did("switch", s)
    /\ UNCHANGED << sessions, history, chatInput, chatLoading, editingId,
                    editingOriginalText, server >>

\* The X of a session button: confirm, then DELETE /sessions/{id}/; the closure
\* keeps the activeSessionId of the render the click happened in.
ClickDeleteSession(s, confirmed) ==
    /\ s \in Range(sessions)
    /\ IF confirmed
       THEN /\ Start(Task("deleteSession", "deleteSession", s,
                                          activeSessionId, <<>>))
            /\ last' = Did("deleteSession", s)
       ELSE UNCHANGED << tasks, events, last >>
    /\ UNCHANGED << sessions, activeSessionId, history, loading, error, chatInput,
                    chatLoading, editingId, editingOriginalText, server >>

\* Mutant: a message of any role may be edited.
EditableWhateverRole(message) == message.id \in Nat

\* A message may be edited: role "user" and a numeric id.
Editable(message) == message.role = "user" /\ message.id \in Nat

\* beginEditMessage(message)
BeginEditMessage(message) ==
    /\ message \in Range(history)
    /\ IF Editable(message)
       THEN /\ editingId' = message.id
            /\ editingOriginalText' = message.text
            /\ chatInput' = message.text
            /\ last' = Did("beginEdit", message.id)
            /\ Event
       ELSE UNCHANGED << editingId, editingOriginalText, chatInput, last, events >>
    /\ UNCHANGED << sessions, activeSessionId, history, loading, error,
                    chatLoading, tasks, server >>

\* Mutant: cancel leaves the composer text as it is.
CancelEditKeepsText ==
    /\ editingId # Null
    /\ editingId' = Null
    /\ editingOriginalText' = <<>>
    /\ last' = Did("cancelEdit", Null)
    /\ Event
    /\ UNCHANGED << sessions, activeSessionId, history, loading, error, chatInput,
                    chatLoading, tasks, server >>

\* cancelEdit(): the Cancel button is rendered while editingId is set.
CancelEdit ==
    /\ editingId # Null
    /\ editingId' = Null
    /\ editingOriginalText' = <<>>
    /\ chatInput' = <<>>
    /\ last' = Did("cancelEdit", Null)
    /\ Event
    /\ UNCHANGED << sessions, activeSessionId, history, loading, error,
                    chatLoading, tasks, server >>

\* Mutant: the delete does not wait for the user's confirmation.
DeleteUnconfirmed(id, confirmed) == id \in Nat

\* handleDeleteMessage goes on to its request: a numeric id, and confirmed.
DeleteGoesOn(id, confirmed) == id \in Nat /\ confirmed

\* handleDeleteMessage(id), from the Delete button of a user message.
HandleDeleteMessage(id, confirmed) ==
    /\ \E m \in Range(history) : m.id = id /\ m.role = "user"
    /\ IF DeleteGoesOn(id, confirmed)
       THEN /\ error' = ""
            /\ Start(Task("deleteMessage", "deleteMessage", id, Null, <<>>))
       ELSE Event /\ UNCHANGED << error, tasks >>
    /\ last' = IF confirmed THEN Did("deleteMessage", id)
                            ELSE Did("deleteDeclined", Null)
    /\ UNCHANGED << sessions, activeSessionId, history, loading, chatInput,
                    chatLoading, editingId, editingOriginalText, server >>

\* The textarea's onChange.
TypeText(t) ==
    /\ t \in Texts
    /\ t # chatInput
    /\ chatInput' = t
    /\ last' = Did("type", Null)
    /\ Event
    /\ UNCHANGED << sessions, activeSessionId, history, loading, error,
                    chatLoading, editingId, editingOriginalText, tasks, server >>

\* Mutant: the submit button is never disabled.
SubmitAlwaysEnabled == TRUE

\* The submit button is disabled while chatLoading.
SubmitEnabled == ~chatLoading

\* sendNewChatMessage up to its first await.
SendNewChatMessage ==
    IF IsBlank(chatInput)
    THEN /\ last' = Did("submitBlank", Null)
         /\ Event
         /\ UNCHANGED << client, tasks, server >>
    ELSE /\ chatLoading' = TRUE
         /\ error' = ""
         /\ Start(
               IF activeSessionId = Null
               THEN Task("send", "createSession", Null, activeSessionId, chatInput)
               ELSE Task("send", "chat", activeSessionId, activeSessionId, chatInput))
         /\ last' = Did("send", activeSessionId)
         /\ UNCHANGED << sessions, activeSessionId, history, loading, chatInput,
                         editingId, editingOriginalText, server >>

\* saveEditedMessage up to its first await.
SaveEditedMessage ==
    IF editingId = Null \/ IsBlank(chatInput)
    THEN /\ last' = Did("submitBlank", Null)
         /\ Event
         /\ UNCHANGED << client, tasks, server >>
    ELSE /\ chatLoading' = TRUE
         /\ error' = ""
         /\ Start(Task("edit", "patch", editingId, editingId, chatInput))
         /\ last' = Did("edit", editingId)
         /\ UNCHANGED << sessions, activeSessionId, history, loading, chatInput,
                         editingId, editingOriginalText, server >>

\* handleSubmit
HandleSubmit ==
    /\ SubmitEnabled
    /\ IF editingId # Null THEN SaveEditedMessage ELSE SendNewChatMessage

\* ------------------------------------------------------------------ continuations
\* Mutant: a handler whose request failed sends it again.
AfterCatchRetry(t) == tasks

\* catch (err) { setError(...) }: the handler ends, its request is not retried.
AfterCatch(t) == Drop(tasks, t)

\* fetchSessions: whether the listed sessions' first one is selected.  The
\* activeSessionId read here is the closure's.
SelectsFirst(t) == t.cap = Null /\ Len(t.data) > 0

\* fetchSessions after its await.
RecvFetchSessions(t) ==
    /\ t.kind = "fetchSessions"
    /\ IF t.st = "ok"
       THEN /\ sessions' = t.data
            /\ IF SelectsFirst(t)
               THEN /\ activeSessionId' = t.data[1]
                    /\ IF FetchMessagesRuns(t.data[1])
                       THEN /\ loading' = TRUE
                            /\ error' = ""
                            /\ tasks' = Replace(tasks, t,
                                  Task("fetchMessages", "fetchMessages", t.data[1], Null, <<>>))
                       ELSE /\ tasks' = Drop(tasks, t)
                            /\ UNCHANGED << loading, error >>
               ELSE /\ tasks' = Drop(tasks, t)
                    /\ UNCHANGED << activeSessionId, loading, error >>
            /\ last' = Did("fetchSessionsOk", Null)
       ELSE /\ tasks' = Drop(tasks, t)
            /\ last' = Did("fetchSessionsFail", Null)
            /\ UNCHANGED << sessions, activeSessionId, loading, error >>
    /\ UNCHANGED << history, chatInput, chatLoading, editingId,
                    editingOriginalText, server, events >>

\* Mutant: a response is dropped when its session is no longer the active one.
HistoryIfStillActive(t) == IF t.arg = activeSessionId THEN t.data ELSE history

\* setHistory(data): the history after the response of fetchMessages.
HistoryAfterFetch(t) == t.data

\* fetchMessages after its await, called on its own (a click, fetchSessions).
RecvFetchMessages(t) ==
    /\ t.kind = "fetchMessages"
    /\ IF t.st = "ok"
       THEN /\ history' = HistoryAfterFetch(t)
            /\ last' = Did("fetchMessagesOk", t.arg)
            /\ UNCHANGED error
       ELSE /\ error' = ErrFetchMessages
            /\ last' = Did("fetchMessagesFail", t.arg)
            /\ UNCHANGED history
    /\ loading' = FALSE
    /\ tasks' = IF t.st = "ok" THEN Drop(tasks, t) ELSE AfterCatch(t)
    /\ UNCHANGED << sessions, activeSessionId, chatInput, chatLoading, editingId,
                    editingOriginalText, server, events >>

\* Mutant: the created session is appended to the list, not prepended.
RecvCreateAppends(t) ==
    /\ t.kind = "create"
    /\ IF t.st = "ok"
       THEN /\ activeSessionId' = t.data[1]
            /\ sessions' = sessions \o << t.data[1] >>
            /\ history' = <<>>
            /\ chatInput' = <<>>
            /\ last' = Did("createOk", t.data[1])
            /\ UNCHANGED error
       ELSE /\ error' = ErrCreate
            /\ last' = Did("createFail", Null)
            /\ UNCHANGED << activeSessionId, sessions, history, chatInput >>
    /\ tasks' = Drop(tasks, t)
    /\ UNCHANGED << loading, chatLoading, editingId, editingOriginalText, server, events >>

\* handleCreateNewChat after its await.
RecvCreate(t) ==
    /\ t.kind = "create"
    /\ IF t.st = "ok"
       THEN /\ activeSessionId' = t.data[1]
            /\ sessions' = << t.data[1] >> \o sessions
            /\ history' = <<>>
            /\ chatInput' = <<>>
            /\ last' = Did("createOk", t.data[1])
            /\ UNCHANGED error
       ELSE /\ error' = ErrCreate
            /\ last' = Did("createFail", Null)
            /\ UNCHANGED << activeSessionId, sessions, history, chatInput >>
    /\ tasks' = IF t.st = "ok" THEN Drop(tasks, t) ELSE AfterCatch(t)
    /\ UNCHANGED << loading, chatLoading, editingId, editingOriginalText, server, events >>

\* The delete handler's test activeSessionId === s.id, on the closure's value.
DeletedWasActive(t) == t.cap = t.arg

\* The delete handler of a session after its await.
RecvDeleteSession(t) ==
    /\ t.kind = "deleteSession"
    /\ IF t.st = "ok"
       THEN /\ sessions' = SelectSeq(sessions, LAMBDA x : x # t.arg)
            /\ IF DeletedWasActive(t)
               THEN activeSessionId' = Null /\ history' = <<>>
               ELSE UNCHANGED << activeSessionId, history >>
            /\ last' = Did("deleteSessionOk", t.arg)
            /\ UNCHANGED error
       ELSE /\ error' = ErrDeleteSession
            /\ last' = Did("deleteSessionFail", t.arg)
            /\ UNCHANGED << sessions, activeSessionId, history >>
    /\ tasks' = IF t.st = "ok" THEN Drop(tasks, t) ELSE AfterCatch(t)
    /\ UNCHANGED << loading, chatInput, chatLoading, editingId,
                    editingOriginalText, server, events >>

\* handleDeleteMessage after its await.
RecvDeleteMessage(t) ==
    /\ t.kind = "deleteMessage"
    /\ IF t.st = "ok"
       THEN /\ history' = SelectSeq(history, LAMBDA m : m.id # t.arg)
            /\ last' = Did("deleteMessageOk", t.arg)
            /\ UNCHANGED error
       ELSE /\ error' = ErrDeleteMessage
            /\ last' = Did("deleteMessageFail", t.arg)
            /\ UNCHANGED history
    /\ tasks' = IF t.st = "ok" THEN Drop(tasks, t) ELSE AfterCatch(t)
    /\ UNCHANGED << sessions, activeSessionId, loading, chatInput, chatLoading,
                    editingId, editingOriginalText, server, events >>

\* Mutant: chatLoading is cleared at the end of the try block only.
ChatLoadingKept == TRUE

\* finally { setChatLoading(false) }: chatLoading once the handler has thrown.
ChatLoadingAfterThrow == FALSE

\* sendNewChatMessage after the await of its POST /sessions/.
RecvSendCreate(t) ==
    /\ t.kind = "send" /\ t.stage = "createSession"
    /\ IF t.st = "ok"
       THEN /\ activeSessionId' = t.data[1]
            /\ sessions' = << t.data[1] >> \o sessions
            /\ tasks' = Replace(tasks, t,
                  [t EXCEPT !.stage = "chat", !.st = "sent", !.arg = t.data[1],
                            !.data = <<>>])
            /\ last' = Did("sendCreated", t.data[1])
            /\ UNCHANGED << error, chatLoading >>
       ELSE /\ error' = ErrCreate
            /\ chatLoading' = ChatLoadingAfterThrow
            /\ tasks' = Drop(tasks, t)
            /\ last' = Did("sendFail", Null)
            /\ UNCHANGED << activeSessionId, sessions >>
    /\ UNCHANGED << history, loading, chatInput, editingId, editingOriginalText,
                    server, events >>

\* sendNewChatMessage after the await of its POST /chat/.
RecvSendChat(t) ==
    /\ t.kind = "send" /\ t.stage = "chat"
    /\ IF t.st = "ok"
       THEN IF FetchMessagesRuns(t.arg)
            THEN /\ loading' = TRUE
                 /\ error' = ""
                 /\ tasks' = Replace(tasks, t,
                       [t EXCEPT !.stage = "fetchMessages", !.st = "sent", !.data = <<>>])
                 /\ last' = Did("sendChatOk", t.arg)
                 /\ UNCHANGED << chatInput, chatLoading >>
            ELSE /\ chatInput' = <<>>
                 /\ chatLoading' = FALSE
                 /\ tasks' = Drop(tasks, t)
                 /\ last' = Did("sendDone", t.arg)
                 /\ UNCHANGED << loading, error >>
       ELSE /\ error' = ErrChat
            /\ chatLoading' = ChatLoadingAfterThrow
            /\ tasks' = Drop(tasks, t)
            /\ last' = Did("sendFail", t.arg)
            /\ UNCHANGED << loading, chatInput >>
    /\ UNCHANGED << sessions, activeSessionId, history, editingId,
                    editingOriginalText, server, events >>

\* Mutant: the send also keeps a local copy of the message it sent.
HistoryWithLocalCopy(t) == t.data \o << Msg(Null, t.arg, "user", t.txt) >>

\* The history a send shows once its reload has returned data.
HistoryAfterSend(t) == t.data

\* sendNewChatMessage after the await of fetchMessages(sessionId).
RecvSendFetch(t) ==
    /\ t.kind = "send" /\ t.stage = "fetchMessages"
    /\ IF t.st = "ok"
       THEN /\ history' = HistoryAfterSend(t)
            /\ last' = Did("sendDone", t.arg)
            /\ UNCHANGED error
       ELSE /\ error' = ErrFetchMessages
            /\ last' = Did("sendDoneNoReload", t.arg)
            /\ UNCHANGED history
    /\ loading' = FALSE
    /\ chatInput' = <<>>
    /\ chatLoading' = FALSE
    /\ tasks' = Drop(tasks, t)
    /\ UNCHANGED << sessions, activeSessionId, editingId, editingOriginalText,
                    server, events >>

\* Mutant: the updated message is not put into the history.
SpliceNothing(prev, updated) == prev

\* prev.map((m) => (m.id === updated.id ? updated : m))
Splice(prev, updated) ==
    [ i \in 1..Len(prev) |-> IF prev[i].id = updated.id THEN updated ELSE prev[i] ]

\* saveEditedMessage after the await of its PATCH.
RecvEditPatch(t) ==
    /\ t.kind = "edit" /\ t.stage = "patch"
    /\ IF t.st = "ok"
       THEN /\ history' = Splice(history, t.data[1])
            /\ tasks' = Replace(tasks, t,
                  [t EXCEPT !.stage = "regenerate", !.st = "sent",
                            !.arg = t.data[1].id, !.updated = t.data[1],
                            !.data = <<>>])
            /\ last' = Did("editSaved", t.data[1].id)
            /\ UNCHANGED << error, chatLoading >>
       ELSE /\ error' = ErrUpdate
            /\ chatLoading' = ChatLoadingAfterThrow
            /\ tasks' = Drop(tasks, t)
            /\ last' = Did("editFail", t.arg)
            /\ UNCHANGED history
    /\ UNCHANGED << sessions, activeSessionId, loading, chatInput, editingId,
                    editingOriginalText, server, events >>

\* Mutant: the reload does not depend on the regenerate's outcome.
ReloadsAlways(t) == TRUE

\* Whether saveEditedMessage reloads the history once the regenerate has settled.
ReloadsAfterRegenerate(t) == t.st = "ok"

\* saveEditedMessage after the await of its regenerate request.
RecvEditRegen(t) ==
    /\ t.kind = "edit" /\ t.stage = "regenerate"
    /\ IF ReloadsAfterRegenerate(t) /\ FetchMessagesRuns(t.updated.session)
       THEN /\ loading' = TRUE
            /\ error' = ""
            /\ tasks' = Replace(tasks, t,
                  [t EXCEPT !.stage = "fetchMessages", !.st = "sent",
                            !.arg = t.updated.session, !.data = <<>>])
            /\ last' = Did("editRegenOk", t.arg)
            /\ UNCHANGED << editingId, editingOriginalText, chatInput, chatLoading >>
       ELSE /\ editingId' = Null
            /\ editingOriginalText' = <<>>
            /\ chatInput' = <<>>
            /\ chatLoading' = FALSE
            /\ tasks' = Drop(tasks, t)
            /\ last' = Did(IF t.st = "ok" THEN "editDone" ELSE "editRegenFail", t.arg)
            /\ UNCHANGED << loading, error >>
    /\ UNCHANGED << sessions, activeSessionId, history, server, events >>

\* saveEditedMessage after the await of fetchMessages(updated.session).
RecvEditFetch(t) ==
    /\ t.kind = "edit" /\ t.stage = "fetchMessages"
    /\ IF t.st = "ok"
       THEN /\ history' = t.data
            /\ last' = Did("editDone", t.updated.id)
            /\ UNCHANGED error
       ELSE /\ error' = ErrFetchMessages
            /\ last' = Did("editDoneNoReload", t.updated.id)
            /\ UNCHANGED history
    /\ loading' = FALSE
    /\ editingId' = Null
    /\ editingOriginalText' = <<>>
    /\ chatInput' = <<>>
    /\ chatLoading' = FALSE
    /\ tasks' = Drop(tasks, t)
    /\ UNCHANGED << sessions, activeSessionId, server, events >>

\* ------------------------------------------------------------------ specification
\* Every id the server can have assigned: an event creates at most one session
\* and at most two messages.
SessionIds == 1..(MaxInitial + MaxEvents)

MsgIds == 1..(2 * MaxInitial + 2 * MaxEvents)

Next ==
    \/ ClickNewChat
    \/ \E s \in SessionIds : ClickSession(s)
    \/ \E s \in SessionIds, confirmed \in BOOLEAN : ClickDeleteSession(s, confirmed)
    \/ \E m \in Range(history) : BeginEditMessage(m)
    \/ CancelEdit
    \/ \E id \in MsgIds, confirmed \in BOOLEAN : HandleDeleteMessage(id, confirmed)
    \/ \E t \in Texts : TypeText(t)
    \/ HandleSubmit
    \/ \E t \in InFlight : ServerOk(t)
    \/ \E t \in InFlight : RecvFetchSessions(t)
    \/ \E t \in InFlight : RecvFetchMessages(t)
    \/ \E t \in InFlight : RecvCreate(t)
    \/ \E t \in InFlight : RecvDeleteSession(t)
    \/ \E t \in InFlight : RecvDeleteMessage(t)
    \/ \E t \in InFlight : RecvSendCreate(t)
    \/ \E t \in InFlight : RecvSendChat(t)
    \/ \E t \in InFlight : RecvSendFetch(t)
    \/ \E t \in InFlight : RecvEditPatch(t)
    \/ \E t \in InFlight : RecvEditRegen(t)
    \/ \E t \in InFlight : RecvEditFetch(t)

Spec == Init /\ [][Next]_vars

\* A send or an edit save goes on after the request it awaits has settled.
Settle ==
    \E t \in InFlight :
       \/ RecvSendCreate(t)
       \/ RecvSendChat(t)
       \/ RecvSendFetch(t)
       \/ RecvEditPatch(t)
       \/ RecvEditRegen(t)
       \/ RecvEditFetch(t)

\* The step keeps the events of the user within MaxFairEvents.
Within == events' <= MaxFairEvents

\* Next, for at most MaxFairEvents events of the user.
FairNext ==
    \/ ClickNewChat /\ Within
    \/ \E s \in SessionIds : ClickSession(s) /\ Within
    \/ \E s \in SessionIds, confirmed \in BOOLEAN :
          ClickDeleteSession(s, confirmed) /\ Within
    \/ \E m \in Range(history) : BeginEditMessage(m) /\ Within
    \/ CancelEdit /\ Within
    \/ \E id \in MsgIds, confirmed \in BOOLEAN :
          HandleDeleteMessage(id, confirmed) /\ Within
    \/ \E t \in Texts : TypeText(t) /\ Within
    \/ HandleSubmit /\ Within
    \/ \E t \in InFlight : ServerOk(t)
    \/ \E t \in InFlight : RecvFetchSessions(t)
    \/ \E t \in InFlight : RecvFetchMessages(t)
    \/ \E t \in InFlight : RecvCreate(t)
    \/ \E t \in InFlight : RecvDeleteSession(t)
    \/ \E t \in InFlight : RecvDeleteMessage(t)
    \/ \E t \in InFlight : RecvSendCreate(t)
    \/ \E t \in InFlight : RecvSendChat(t)
    \/ \E t \in InFlight : RecvSendFetch(t)
    \/ \E t \in InFlight : RecvEditPatch(t)
    \/ \E t \in InFlight : RecvEditRegen(t)
    \/ \E t \in InFlight : RecvEditFetch(t)

\* Every request of a send or an edit save gets a response or fails.
FairSpec == Init /\ [][FairNext]_vars /\ WF_vars(Settle)

\* ------------------------------------------------------------------ properties
\* The step is the continuation of handler t after a successful response.
Succeeded(t) == t.st = "ok" /\ CopiesIn(t, tasks') < CopiesIn(t, tasks)

\* The step is the server answering a request with success.
Answered ==
    \E u \in BagToSet(tasks') :
       u.st = "ok" /\ CopiesIn(u, tasks') > CopiesIn(u, tasks)

\* The step is the continuation of handler t after a failed request.
Failed(t) ==
    t.st = "sent" /\ CopiesIn(t, tasks') < CopiesIn(t, tasks) /\ ~Answered

\* The send-or-edit-save handlers in flight, with their multiplicity.
Chains == { t \in InFlight : t.kind \in {"send", "edit"} }

ChainCount == BagCardinality([ t \in Chains |-> CopiesIn(t, tasks) ])

\* A history fetch for the active session is in flight.
Reloading ==
    \E t \in InFlight : t.stage = "fetchMessages" /\ t.arg = activeSessionId

(* C1: in every reachable state history holds only messages of the session *)
(* activeSessionId names, unless that session's history is being reloaded. *)
C1_HistoryOfActiveSession ==
    Reloading \/ \A m \in Range(history) : m.session = activeSessionId

(* C2: when the response of a successful createSession is applied, the     *)
(* created session becomes the active one and the first of sessions, ahead *)
(* of the sessions listed before, and history and composer text are empty. *)
C2_CreateSession ==
    [][ \A t \in InFlight :
          (t.kind = "create" /\ Succeeded(t)) =>
             /\ activeSessionId' = t.data[1]
             /\ sessions' = << t.data[1] >> \o sessions
             /\ history' = <<>>
             /\ chatInput' = <<>> ]_vars

\* A session was created while other sessions were listed and another
\* request was still in flight.
C2_Witness ==
    /\ last.op = "createOk"
    /\ activeSessionId = last.arg
    /\ Len(sessions) >= 2
    /\ sessions[1] = last.arg
    /\ InFlight # {}

(* C3: when the response of a successful deleteSession(id) is applied, id  *)
(* leaves sessions; if id is the active session at that moment,            *)
(* activeSessionId becomes null and history empty; otherwise both are      *)
(* left as they are.                                                       *)
C3_DeleteSession ==
    [][ \A t \in InFlight :
          (t.kind = "deleteSession" /\ Succeeded(t)) =>
             /\ sessions' = SelectSeq(sessions, LAMBDA x : x # t.arg)
             /\ IF activeSessionId = t.arg
                THEN activeSessionId' = Null /\ history' = <<>>
                ELSE UNCHANGED << activeSessionId, history >> ]_vars

(* C4: when a send whose POST /chat/ succeeded finishes, the server has    *)
(* returned the session's message list and history is exactly that list.   *)
C4_HistoryIsReturnedList ==
    [][ \A t \in InFlight :
          (t.kind = "send" /\ t.stage = "fetchMessages"
             /\ (Succeeded(t) \/ Failed(t))) =>
             (t.st = "ok" /\ history' = t.data) ]_vars

(* C4, amended: when a send whose POST /chat/ succeeded finishes, history  *)
(* is exactly the list its reload returned if the reload succeeded; if the *)
(* reload failed, history is as it was and the error string is set.        *)
C4_HistoryIsReturnedListIfReloaded ==
    [][ \A t \in InFlight :
          (t.kind = "send" /\ t.stage = "fetchMessages") =>
             /\ Succeeded(t) => history' = t.data
             /\ Failed(t) => history' = history /\ error' # "" ]_vars

\* A send has finished and shows the reloaded history, the sent message once.
C4_Witness ==
    /\ last.op = "sendDone"
    /\ Cardinality({ i \in 1..Len(history) : history[i].text = <<"b">> }) = 1
    /\ \A m \in Range(history) : m.session = last.arg

(* C5: a send started with no active session asks for POST /sessions/,     *)
(* then POST /chat/ with the created id, then GET messages of that id, and *)
(* when it finishes the created session is the active one and the first of *)
(* sessions; the user does nothing but type and submit, the only other     *)
(* response is that of the startup listSessions.                           *)
C5_SendCreatesSession ==
    [][ \A t \in InFlight :
          (t.kind = "send" /\ t.cap = Null /\ events <= 2) =>
             /\ (t.stage = "createSession" /\ Succeeded(t)) =>
                   \E u \in BagToSet(tasks') :
                      u.kind = "send" /\ u.stage = "chat" /\ u.arg = t.data[1]
             /\ (t.stage = "chat" /\ Succeeded(t)) =>
                   \E u \in BagToSet(tasks') :
                      u.kind = "send" /\ u.stage = "fetchMessages" /\ u.arg = t.arg
             /\ (t.stage = "fetchMessages" /\ (Succeeded(t) \/ Failed(t))) =>
                   /\ activeSessionId' = t.arg
                   /\ sessions' # <<>>
                   /\ sessions'[1] = t.arg ]_vars

(* C6: at most one send-or-edit-save handler is in flight, and chatLoading *)
(* is true exactly while one is.                                           *)
C6_OneSubmitInFlight ==
    /\ ChainCount <= 1
    /\ chatLoading = (ChainCount = 1)

\* A send or edit save is in flight while the composer holds text that a
\* second submit would send.
C6_Witness ==
    /\ ChainCount = 1
    /\ chatLoading
    /\ ~IsBlank(chatInput)
    /\ events < MaxEvents

(* C7: when the response of a successful listSessions is applied, sessions *)
(* becomes the server's list; the first entry is selected and its history  *)
(* load started only if no session is active at that moment and the list   *)
(* is not empty; otherwise activeSessionId is left as it is.               *)
C7_ListSessions ==
    [][ \A t \in InFlight :
          (t.kind = "fetchSessions" /\ Succeeded(t)) =>
             /\ sessions' = t.data
             /\ IF activeSessionId = Null /\ Len(t.data) > 0
                THEN /\ activeSessionId' = t.data[1]
                     /\ \E u \in BagToSet(tasks') :
                           u.kind = "fetchMessages" /\ u.arg = t.data[1]
                ELSE activeSessionId' = activeSessionId ]_vars

(* C8: when the PATCH of an edit has succeeded and the regenerate request  *)
(* fails, every message of history with the edited id carries the updated  *)
(* text, editingId is null, the composer text is empty and the error       *)
(* string is empty.                                                        *)
C8_FailedRegenerate ==
    [][ \A t \in InFlight :
          (t.kind = "edit" /\ t.stage = "regenerate" /\ Failed(t)) =>
             /\ \A m \in Range(history') : m.id = t.arg => m.text = t.txt
             /\ editingId' = Null
             /\ chatInput' = <<>>
             /\ error' = "" ]_vars

(* C8, amended: when the PATCH of an edit succeeds, every message of        *)
(* history with the edited id gets the updated text at that moment and the *)
(* others are left alone; when the regenerate request then fails, that     *)
(* step sets no error and leaves history as it is, sets editingId to null  *)
(* and empties the composer text.                                          *)
C8_FailedRegenerateStep ==
    [][ \A t \in InFlight :
          t.kind = "edit" =>
             /\ (t.stage = "patch" /\ Succeeded(t)) =>
                   /\ Len(history') = Len(history)
                   /\ \A i \in 1..Len(history) :
                         IF history[i].id = t.arg
                         THEN history'[i] = [history[i] EXCEPT !.text = t.txt]
                         ELSE history'[i] = history[i]
             /\ (t.stage = "regenerate" /\ Failed(t)) =>
                   /\ history' = history
                   /\ error' = error
                   /\ editingId' = Null
                   /\ chatInput' = <<>> ]_vars

\* The regenerate of an edit to "b" has failed: the edited message shows "b",
\* edit mode is left, no error is shown.
C8_Witness ==
    /\ last.op = "editRegenFail"
    /\ \E m \in Range(history) : m.id = last.arg /\ m.text = <<"b">>
    /\ editingId = Null
    /\ chatInput = <<>>
    /\ error = ""

(* C9: after a successful edit save a regenerate request is issued for the *)
(* edited message, and once it has settled, with success or with failure,  *)
(* the history is reloaded from the server.                                *)
C9_ReloadAfterRegenerate ==
    [][ \A t \in InFlight :
          t.kind = "edit" =>
             /\ (t.stage = "patch" /\ Succeeded(t)) =>
                   \E u \in BagToSet(tasks') :
                      u.kind = "edit" /\ u.stage = "regenerate" /\ u.arg = t.arg
             /\ (t.stage = "regenerate" /\ (Succeeded(t) \/ Failed(t))) =>
                   \E u \in BagToSet(tasks') :
                      /\ u.kind = "edit" /\ u.stage = "fetchMessages"
                      /\ u.arg = t.updated.session ]_vars

(* C9, amended: after a successful edit save a regenerate request is       *)
(* issued for the edited message; the history is reloaded from the server  *)
(* when the regenerate has succeeded, and when it has failed no reload is  *)
(* issued and the handler ends.                                            *)
C9_ReloadAfterRegenerateOk ==
    [][ \A t \in InFlight :
          t.kind = "edit" =>
             /\ (t.stage = "patch" /\ Succeeded(t)) =>
                   \E u \in BagToSet(tasks') :
                      u.kind = "edit" /\ u.stage = "regenerate" /\ u.arg = t.arg
             /\ (t.stage = "regenerate" /\ Succeeded(t)) =>
                   \E u \in BagToSet(tasks') :
                      /\ u.kind = "edit" /\ u.stage = "fetchMessages"
                      /\ u.arg = t.updated.session
             /\ (t.stage = "regenerate" /\ Failed(t)) =>
                   /\ \A u \in BagToSet(tasks') : u.kind # "edit"
                   /\ ~chatLoading' ]_vars

\* A regenerate has succeeded and the reload of the edited message's session
\* is in flight.
C9_Witness ==
    /\ last.op = "editRegenOk"
    /\ loading
    /\ \E u \in InFlight : u.kind = "edit" /\ u.stage = "fetchMessages"

(* C10: every step that starts an operation that can fail (create session, *)
(* delete session, load history, send, edit save, delete message) leaves   *)
(* the error string empty.                                                 *)
C10_ErrorClearedAtStart ==
    [][ (events' = events + 1 /\ BagCardinality(tasks') > BagCardinality(tasks))
          => error' = "" ]_vars

\* The text is empty or holds white space only.
WhiteOnly(t) == \A i \in 1..Len(t) : t[i] = " "

\* The step is a submit of the composer's form.
SubmitStep ==
    events' = events + 1 /\ last'.op \in {"submitBlank", "send", "edit"}

(* C11: a submit whose composer text is empty or white space only, in send *)
(* mode or in edit mode, issues no request and leaves history, sessions,   *)
(* activeSessionId, editingId and chatLoading as they are.                 *)
C11_BlankSubmit ==
    [][ (SubmitStep /\ WhiteOnly(chatInput)) =>
           /\ tasks' = tasks
           /\ UNCHANGED << history, sessions, activeSessionId, editingId,
                           chatLoading >> ]_vars

\* A white-space-only text was submitted in edit mode and nothing was sent.
C11_Witness ==
    /\ last.op = "submitBlank"
    /\ chatInput = <<" ">>
    /\ editingId # Null
    /\ ~chatLoading
    /\ \A t \in InFlight : t.kind \notin {"send", "edit"}

(* C12: beginEdit enters edit mode, with editingId set to the message's id *)
(* and the composer text set to the message's text, only on a message of   *)
(* history whose role is "user" and whose id is a number; on any other     *)
(* message it changes neither editingId nor the composer text.             *)
C12_BeginEdit ==
    [][ (events' = events + 1 /\ last'.op = "beginEdit") =>
           \E m \in Range(history) :
              /\ m.id = last'.arg
              /\ m.role = "user"
              /\ m.id \in Nat
              /\ editingId' = m.id
              /\ chatInput' = m.text ]_vars

\* Edit mode was entered on the user message of a history that also holds
\* an assistant message.
C12_Witness ==
    /\ last.op = "beginEdit"
    /\ editingId = last.arg
    /\ \E m \in Range(history) :
          m.id = editingId /\ m.role = "user" /\ chatInput = m.text
    /\ \E m \in Range(history) : m.role = "assistant"

\* The step ends the edit save of handler t: no edit save is in flight after it.
EditSettles(t) ==
    /\ t.kind = "edit"
    /\ Succeeded(t) \/ Failed(t)
    /\ \A u \in BagToSet(tasks') : u.kind # "edit"

\* The step is a click on Cancel.
CancelStep == events' = events + 1 /\ last'.op = "cancelEdit"

\* The messages of history that are in edit state.
InEditState(h, id) == { i \in 1..Len(h) : id # Null /\ h[i].id = id }

(* C13: at most one message is in edit state; once an edit-mode submit has *)
(* settled, and after a cancel, editingId is null; a cancel also empties   *)
(* the composer text and issues no request.                                *)
C13_EditCleared ==
    [][ /\ Cardinality(InEditState(history', editingId')) <= 1
        /\ \A t \in InFlight : EditSettles(t) => editingId' = Null
        /\ CancelStep =>
              editingId' = Null /\ chatInput' = <<>> /\ tasks' = tasks ]_vars

(* C13, amended: at most one message is in edit state; once an edit-mode   *)
(* submit has settled after a successful PATCH, and after a cancel,        *)
(* editingId is null; when the PATCH has failed the submit settles with    *)
(* editingId left as it is; a cancel also empties the composer text and    *)
(* issues no request.                                                      *)
C13_EditClearedUnlessPatchFailed ==
    [][ /\ Cardinality(InEditState(history', editingId')) <= 1
        /\ \A t \in InFlight : EditSettles(t) =>
              IF t.stage = "patch"
              THEN editingId' = editingId
              ELSE editingId' = Null
        /\ CancelStep =>
              editingId' = Null /\ chatInput' = <<>> /\ tasks' = tasks ]_vars

\* An edit-mode submit has settled after its reload: no message is in edit
\* state and the composer is empty.
C13_Witness ==
    /\ last.op = "editDone"
    /\ editingId = Null
    /\ chatInput = <<>>
    /\ ~chatLoading
    /\ \A u \in InFlight : u.kind # "edit"

\* The step is a click on Delete that the user did not confirm.
DeclineStep == events' = events + 1 /\ last'.op = "deleteDeclined"

(* C14: when the response of a successful, confirmed deleteMessage(id) is  *)
(* applied, history loses exactly the messages whose id is id, the others  *)
(* stay, in their order; a deleteMessage that the user does not confirm    *)
(* issues no request and leaves history as it is, and every request that   *)
(* is issued carries a numeric id.                                         *)
C14_DeleteMessage ==
    [][ /\ \A t \in InFlight :
              (t.kind = "deleteMessage" /\ Succeeded(t)) =>
                 history' = SelectSeq(history, LAMBDA m : m.id # t.arg)
        /\ DeclineStep => tasks' = tasks /\ history' = history
        /\ \A t \in BagToSet(tasks') : t.kind = "deleteMessage" => t.arg \in Nat
      ]_vars

\* A message was deleted and the reply that followed it is still shown.
C14_Witness ==
    /\ last.op = "deleteMessageOk"
    /\ history # <<>>
    /\ \A m \in Range(history) : m.id # last.arg
    /\ \E m \in Range(history) : m.id > last.arg

(* C15: when the PATCH of an edit save fails the flow halts: the handler   *)
(* ends without a regenerate request and without a history reload, history *)
(* is as it was, editingId and the composer text are kept, and the error   *)
(* string is set to a non-empty message.                                   *)
C15_PatchFailureHalts ==
    [][ \A t \in InFlight :
          (t.kind = "edit" /\ t.stage = "patch" /\ Failed(t)) =>
             /\ tasks' = Drop(tasks, t)
             /\ history' = history
             /\ editingId' = editingId
             /\ chatInput' = chatInput
             /\ error' # "" ]_vars

\* The PATCH of an edit has failed: the message is still in edit state, the
\* composer still holds the text, the error is shown, nothing is in flight
\* for the edit.
C15_Witness ==
    /\ last.op = "editFail"
    /\ editingId = last.arg
    /\ ~IsBlank(chatInput)
    /\ error # ""
    /\ ~chatLoading
    /\ \A u \in InFlight : u.kind # "edit"

(* C16: the responses of history loads are applied in the order they       *)
(* arrive and none is cancelled: whenever a load leaves flight its         *)
(* response is applied, history becoming the list it returned, whichever   *)
(* session is active and whichever loads were requested after it; so when  *)
(* the load of A is requested before the load of B and answered after it,  *)
(* history ends as A's list.                                               *)
C16_AppliedInArrivalOrder ==
    [][ \A t \in InFlight :
          t.stage = "fetchMessages" =>
             /\ Succeeded(t) => history' = t.data
             /\ (Succeeded(t) \/ Failed(t)) =>
                   \A u \in InFlight \ {t} :
                      CopiesIn(u, tasks') = CopiesIn(u, tasks) ]_vars

\* The response of the load of a session that is no longer the active one
\* arrived last: its messages are shown, no load is in flight.
C16_Witness ==
    /\ last.op = "fetchMessagesOk"
    /\ activeSessionId # Null
    /\ activeSessionId # last.arg
    /\ activeSessionId \in Range(sessions)
    /\ history # <<>>
    /\ \A m \in Range(history) : m.session = last.arg
    /\ \A u \in InFlight : u.stage # "fetchMessages"

(* C17: when every request gets a response or fails, chatLoading, once a   *)
(* submit has set it, is false again later, whichever of the requests of   *)
(* the submit fails or succeeds.                                           *)
C17_ChatLoadingEnds == chatLoading ~> ~chatLoading

\* A send has settled although its history reload failed: chatLoading is
\* false again.
C17_Witness ==
    /\ last.op = "sendDoneNoReload"
    /\ ~chatLoading
    /\ ChainCount = 0
    /\ error # ""

\* The handler steps that end a failed create session, delete session,
\* delete message or history load.
FailureOps ==
    { "createFail", "deleteSessionFail", "deleteMessageFail",
      "fetchMessagesFail", "sendDoneNoReload", "editDoneNoReload" }

(* C18: a failed create session, delete session, delete message or history *)
(* load leaves sessions, activeSessionId and history as they are and sets  *)
(* the error string to a non-empty message, and it is not retried: the     *)
(* step ends the request and issues no other.                              *)
C18_FailureIsTerminal ==
    [][ /\ \A t \in InFlight :
              ( /\ t.stage \in { "createSession", "deleteSession",
                                 "deleteMessage", "fetchMessages" }
                /\ Failed(t) ) =>
                 /\ UNCHANGED << sessions, activeSessionId, history >>
                 /\ error' # ""
                 /\ tasks' = Drop(tasks, t)
        /\ (last'.op \in FailureOps /\ last' # last) =>
              BagCardinality(tasks') = BagCardinality(tasks) - 1 ]_vars

\* The load of the active session's history has failed: the error is shown,
\* the session is still active and listed, and nothing is in flight.
C18_Witness ==
    /\ last.op = "fetchMessagesFail"
    /\ error # ""
    /\ activeSessionId = last.arg
    /\ activeSessionId \in Range(sessions)
    /\ ~loading
    /\ InFlight = {}

(* C19: in every reachable state activeSessionId, when it is not null, is  *)
(* the id of a session of the sessions list.                               *)
C19_ActiveSessionListed ==
    activeSessionId # Null => activeSessionId \in Range(sessions)

(* C20: in every reachable state editingId, when it is not null, is the id *)
(* of a message of history whose role is "user".                           *)
C20_EditedMessageShown ==
    editingId # Null =>
       \E m \in Range(history) : m.id = editingId /\ m.role = "user"

(* C21: in every reachable state no two entries of the sessions list have  *)
(* the same id.                                                            *)
C21_NoDuplicateSessions ==
    \A i, j \in 1..Len(sessions) : sessions[i] = sessions[j] => i = j

\* The history loads in flight, whichever handler awaits them.
HistoryLoads == { t \in InFlight : t.stage = "fetchMessages" }

(* C22: in every reachable state the loading flag is true exactly when at  *)
(* least one history load is in flight.                                    *)
C22_LoadingWhileInFlight == loading = (HistoryLoads # {})

====
